---- MODULE Spec2Model ----
(***************************************************************************)
(* Boltzmann generator library (bgflow): the quasi-random product sampler, *)
(* the product energy / distribution, the Boltzmann generator's sampling   *)
(* and weighting routines, the affine transformer, and the Metropolis      *)
(* Monte Carlo flow layer (bgtorch).                                       *)
(*                                                                         *)
(* The library is call-and-return.  `call` is the last call made (its      *)
(* operation and arguments), `ret` its outcome (the value returned, or the *)
(* exception raised).  `sobol`, `prod` and `affine` are the objects the    *)
(* calls act on; `mc` holds the locals of a running Metropolis trajectory. *)
(***************************************************************************)
EXTENDS Integers, Sequences, FiniteSets, TLC

VARIABLES call, ret, sobol, prod, affine, mc

vars == <<call, ret, sobol, prod, affine, mc>>

(***************************************************************************)
(* Bounds of the model.                                                    *)
(***************************************************************************)
\* log2 of the capacity of the Sobol sequence (scipy's `bits`, scaled down)
SobolBits == 3
\* number of distinct seeds np.random.randint may return
NumSeeds == 2
\* largest number of components of a product
MaxK == 2
\* largest length of an event axis
MaxDim == 2
\* largest rank of a component's event shape
MaxRank == 2
\* largest batch the prior is asked for in one call
MaxBatch == 2
\* largest latent value the prior draws (latents are 0..MaxZ)
MaxZ == 1
\* largest num_samples and batch_size given to log_weights_from_samples
MaxSamples == 4
\* threshold of the clipping energy regulariser
RegClip == 3
\* largest batch of log-weights given to effective_sample_size
MaxWeights == 3
\* largest finite log-weight, in units of ln 2 (log-weights are 0..MaxLogW or -inf)
MaxLogW == 2
\* largest constant added to every log-weight
MaxShift == 1
\* the transformed variable y takes the values -1/2, 0, ..., MaxY/2 per dimension
MaxY == 2
\* the carrier x takes the values 0..MaxCarrier
MaxCarrier == 1
\* configurations of the Metropolis flow are the grid points 0..MaxPos
MaxPos == 3
\* largest nsteps of a Metropolis flow
MaxSteps == 2
\* largest batch of configurations given to a Metropolis flow
MaxWalkers == 2

NoCall == [op |-> "none"]
NoRet == [raised |-> "none"]
\* the outcome of a call that has been made and has not returned yet
Pending == [raised |-> "pending"]
NoObject == [kind |-> "none"]

(***************************************************************************)
(* Helpers on sequences of integers.                                       *)
(***************************************************************************)
RECURSIVE SumSeq(_)
SumSeq(s) == IF s = <<>> THEN 0 ELSE Head(s) + SumSeq(Tail(s))

SeqsUpTo(S, n) == UNION {[1..k -> S] : k \in 1..n}

(***************************************************************************)
(* SobolProductSampler                                                     *)
(***************************************************************************)
Seeds == 0..(NumSeeds - 1)

\* scipy.stats.qmc.Sobol.maxn = 2**bits
Maxn == 2^SobolBits

\* np.log2(n_samples) % 1 != 0 is the negation; log2 of 0 is -inf and -inf % 1
\* is nan, which differs from 0, so 0 is rejected as well
IsPowerOfTwo(n) == n >= 1 /\ \E k \in 0..(SobolBits + 2) : 2^k = n

\* Sobol(d=sum(self.dims), scramble=True, seed=...): a fresh generator
init_sobol(s, seed) == [s EXCEPT !.d = SumSeq(s.dims), !.seed = seed, !.num_generated = 0]

\* SobolProductSampler.__init__
SobolProductSamplerInit(dims, seed) ==
    init_sobol([kind |-> "SobolProductSampler", dims |-> dims, d |-> 0,
                seed |-> 0, num_generated |-> 0], seed)

\* Sobol.random(n): raises when the sequence would be exhausted, otherwise
\* returns an (n, d) block and advances the cursor by n
SobolRandom(s, n) ==
    IF s.num_generated + n > Maxn
    THEN [raised |-> "ValueError", sobol |-> s, block |-> <<0, 0>>]
    ELSE [raised |-> "none",
          sobol |-> [s EXCEPT !.num_generated = s.num_generated + n],
          block |-> <<n, s.d>>]

\* the same without the capacity check and reinitialisation
get_sobol_samples_no_reinit(s, n, seed) ==
    IF ~IsPowerOfTwo(n)
    THEN [raised |-> "ValueError", reinit |-> FALSE, sobol |-> s, block |-> <<0, 0>>]
    ELSE LET r == SobolRandom(s, n)
         IN  [raised |-> r.raised, reinit |-> FALSE, sobol |-> r.sobol, block |-> r.block]

\* SobolProductSampler._get_sobol_samples: the capacity check comes first,
\* then the power-of-two check, then the draw
get_sobol_samples(s, n, seed) ==
    LET over == s.num_generated + n > Maxn
        s1 == IF over THEN init_sobol(s, seed) ELSE s
    IN  IF ~IsPowerOfTwo(n)
        THEN [raised |-> "ValueError", reinit |-> over, sobol |-> s1, block |-> <<0, 0>>]
        ELSE LET r == SobolRandom(s1, n)
             IN  [raised |-> r.raised, reinit |-> over, sobol |-> r.sobol, block |-> r.block]

\* Tensor.split(lengths, dim): the widths of the pieces; the lengths must add
\* up to the size of the axis
SplitWidths(size, lengths) ==
    IF SumSeq(lengths) = size THEN lengths ELSE <<>>

\* SobolProductSampler._split_according_to_dims on a block of shape <<n, d>>
split_according_to_dims(s, block) == SplitWidths(block[2], s.dims)

\* SobolProductSampler._sample: the outcome of the call and the sampler after it
SobolSampleOutcome(s, n, seed) ==
    LET g == get_sobol_samples(s, n, seed)
        w == split_according_to_dims(g.sobol, g.block)
    IN  IF g.raised # "none"
        THEN [raised |-> g.raised, reinit |-> g.reinit, sobol |-> g.sobol,
              widths |-> <<>>, invoked |-> 0]
        ELSE IF w = <<>>
        THEN [raised |-> "RuntimeError", reinit |-> g.reinit, sobol |-> g.sobol,
              widths |-> <<>>, invoked |-> 0]
        ELSE [raised |-> "none", reinit |-> g.reinit, sobol |-> g.sobol,
              widths |-> w, invoked |-> Len(s.dims)]

\* n_samples: the powers of two up to twice the capacity, and 0, 3 and the
\* neighbours of the capacity (none a power of two beyond the smallest capacities)
DrawSizes == {2^k : k \in 0..(SobolBits + 1)} \cup {0, 3, Maxn - 1, Maxn + 1}

SobolSample ==
    \E n \in DrawSizes, seed \in Seeds :
        LET o == SobolSampleOutcome(sobol, n, seed)
        IN  /\ call' = [op |-> "sobol_sample", n |-> n, at |-> sobol.num_generated]
            /\ ret' = [raised |-> o.raised, reinit |-> o.reinit,
                       widths |-> o.widths, invoked |-> o.invoked]
            /\ sobol' = o.sobol
            /\ UNCHANGED <<prod, affine, mc>>

InitSobol ==
    /\ call = NoCall
    /\ ret = NoRet
    /\ \E dims \in SeqsUpTo(1..MaxDim, MaxK), seed \in Seeds :
           sobol = SobolProductSamplerInit(dims, seed)
    /\ prod = NoObject
    /\ affine = NoObject
    /\ mc = NoObject

NextSobol == SobolSample

SpecSobol == InitSobol /\ [][NextSobol]_vars

(***************************************************************************)
(* C3: a draw whose n_samples is not a power of two raises before any      *)
(* sampling work: the generator is not reinitialised with a new seed, its  *)
(* cursor is not advanced, and no component sampler is invoked.            *)
(***************************************************************************)
C3_RejectedDrawLeavesGenerator ==
    (call.op = "sobol_sample" /\ ~IsPowerOfTwo(call.n)) =>
        /\ ret.raised = "ValueError"
        /\ ~ret.reinit
        /\ sobol.num_generated = call.at
        /\ ret.invoked = 0

\* what does hold of a rejected draw: it raises, invokes no component and
\* leaves the generator alone unless cursor + n exceeds the capacity
C3_RejectedDrawWithinCapacity ==
    (call.op = "sobol_sample" /\ ~IsPowerOfTwo(call.n)) =>
        /\ ret.raised = "ValueError"
        /\ ret.invoked = 0
        /\ ret.reinit = (call.at + call.n > Maxn)
        /\ ~ret.reinit => sobol.num_generated = call.at
        /\ ret.reinit => sobol.num_generated = 0

(***************************************************************************)
(* C4 as stated: every power-of-two draw succeeds, reinitialising the      *)
(* generator when cursor + n would exceed the capacity; the cursor never   *)
(* exceeds the capacity and advances by exactly n; component i receives a  *)
(* slice of width dims[i], the widths summing to the total dimension.      *)
(***************************************************************************)
SobolDrawEffect ==
    /\ ret.raised = "none"
    /\ ret.reinit = (call.at + call.n > Maxn)
    /\ sobol.num_generated = (IF ret.reinit THEN 0 ELSE call.at) + call.n
    /\ ret.widths = sobol.dims
    /\ SumSeq(ret.widths) = sobol.d
    /\ ret.invoked = Len(sobol.dims)

C4_EveryPowerOfTwoDrawSucceeds ==
    /\ sobol.num_generated <= Maxn
    /\ (call.op = "sobol_sample" /\ IsPowerOfTwo(call.n)) => SobolDrawEffect

(***************************************************************************)
(* C4 amended: the same for power-of-two draws of at most the capacity of  *)
(* the sequence (a larger draw is reinitialised and then refused by the    *)
(* generator itself).                                                      *)
(***************************************************************************)
C4_DrawWithinCapacitySucceeds ==
    /\ sobol.num_generated <= Maxn
    /\ (call.op = "sobol_sample" /\ IsPowerOfTwo(call.n) /\ call.n <= Maxn)
           => SobolDrawEffect

\* a draw that wrapped: the cursor was not at 0, cursor + n exceeded the
\* capacity, and the draw succeeded on the fresh generator
C4_WrappedDraw ==
    /\ call.op = "sobol_sample"
    /\ IsPowerOfTwo(call.n)
    /\ call.at > 0
    /\ call.at + call.n > Maxn
    /\ ret.raised = "none"
    /\ ret.reinit
    /\ sobol.num_generated = call.n
    /\ Len(ret.widths) = MaxK

(***************************************************************************)
(* Boltzmann generator (bg.py).  A tensor is a sequence over the batch of  *)
(* per-sample integers; a sample of K events is a tuple of K tensors.      *)
(* Prior, flow and target are the injected collaborators: the prior draws  *)
(* any latents in 0..MaxZ, the flow shifts each event by one and reports a *)
(* sample-dependent dlogp, the energies are quadratic.                     *)
(***************************************************************************)
Latents == 0..MaxZ

\* all tuples of K tensors of batch size n
Draws(K, n) == [1..K -> [1..n -> Latents]]

BatchOf(z) == Len(z[1])

\* self._flow(*z, context=context) -> (*x, dlogp)
FlowForward(z) ==
    [x |-> [k \in 1..Len(z) |-> [i \in 1..BatchOf(z) |-> z[k][i] + 1]],
     dlogp |-> [i \in 1..BatchOf(z) |-> z[1][i] + 1]]

\* self._prior.energy(*z)
PriorEnergy(z) ==
    [i \in 1..BatchOf(z) |-> SumSeq([k \in 1..Len(z) |-> z[k][i] * z[k][i]])]

\* self._target.energy(*x, temperature=temperature)
TargetEnergy(x) ==
    [i \in 1..BatchOf(x) |-> SumSeq([k \in 1..Len(x) |-> x[k][i] * x[k][i]])]

TensorAdd(a, b) == [i \in 1..Len(a) |-> a[i] + b[i]]
TensorSub(a, b) == [i \in 1..Len(a) |-> a[i] - b[i]]

\* torch.softmax(log_weights, dim=0).view(-1), kept symbolic
Softmax(logw) == [softmax_of |-> logw]

Out(name, val) == [name |-> name, val |-> val]

\* list.append(*z): one positional argument exactly
AppendStar(results, z) ==
    IF Len(z) = 1 THEN [raised |-> "none", results |-> Append(results, Out("z", z[1]))]
    ELSE [raised |-> "TypeError", results |-> results]

\* BoltzmannGenerator.sample, given the latents z the prior drew
BGSample(z, with_latent, with_dlogp, with_energy, with_log_weights, with_weights) ==
    LET f == FlowForward(z)
        r0 == [k \in 1..Len(f.x) |-> Out("x", f.x[k])]
        a1 == IF with_latent THEN AppendStar(r0, z) ELSE [raised |-> "none", results |-> r0]
        r1 == a1.results
        r2 == IF with_dlogp THEN Append(r1, Out("dlogp", f.dlogp)) ELSE r1
        bg_energy == TensorAdd(PriorEnergy(z), f.dlogp)
        r3 == IF with_energy THEN Append(r2, Out("energy", bg_energy)) ELSE r2
        log_weights == TensorSub(bg_energy, TargetEnergy(f.x))
        r4 == IF with_log_weights THEN Append(r3, Out("log_weight", log_weights)) ELSE r3
        r5 == IF with_weights THEN Append(r4, Out("weight", Softmax(log_weights))) ELSE r4
    IN  IF a1.raised # "none"
        THEN [raised |-> a1.raised]
        ELSE IF Len(r5) > 1
        THEN [raised |-> "none", bare |-> FALSE, value |-> r5]
        ELSE [raised |-> "none", bare |-> TRUE, value |-> r5]

\* the calls of sample: n_samples, the five flags, and the latents z that
\* self._prior.sample(n_samples) draws
SampleCalls ==
    UNION {[op : {"sample"}, n_samples : {n}, z : Draws(K, n), with_latent : BOOLEAN,
            with_dlogp : BOOLEAN, with_energy : BOOLEAN, with_log_weights : BOOLEAN,
            with_weights : BOOLEAN] : <<K, n>> \in (1..MaxK) \X (1..MaxBatch)}

Sample ==
    /\ call.op = "sample"
    /\ ret = Pending
    /\ ret' = BGSample(call.z, call.with_latent, call.with_dlogp, call.with_energy,
                       call.with_log_weights, call.with_weights)
    /\ UNCHANGED <<call, sobol, prod, affine, mc>>

\* energy_regularizer_fn: None, or a function clipping the energy from above
Regularizers == {"None", "clip"}

ApplyRegularizer(fn, energy) ==
    IF fn = "clip"
    THEN [i \in 1..Len(energy) |-> IF energy[i] > RegClip THEN RegClip ELSE energy[i]]
    ELSE energy

\* unnormalized_kl_div / BoltzmannGenerator.kldiv, given the latents z
unnormalized_kl_div(z, energy_regularizer_fn, return_energies) ==
    LET f == FlowForward(z)
        energy0 == TargetEnergy(f.x)
        energy == IF energy_regularizer_fn # "None"
                  THEN ApplyRegularizer(energy_regularizer_fn, energy0)
                  ELSE energy0
    IN  IF return_energies
        THEN [raised |-> "none", value |-> <<TensorSub(energy, f.dlogp), energy>>]
        ELSE [raised |-> "none", value |-> TensorSub(energy, f.dlogp)]

KldivCalls ==
    UNION {[op : {"kldiv"}, n_samples : {n}, z : Draws(K, n),
            energy_regularizer_fn : Regularizers, return_energies : BOOLEAN]
           : <<K, n>> \in (1..MaxK) \X (1..MaxBatch)}

Kldiv ==
    /\ call.op = "kldiv"
    /\ ret = Pending
    /\ ret' = unnormalized_kl_div(call.z, call.energy_regularizer_fn, call.return_energies)
    /\ UNCHANGED <<call, sobol, prod, affine, mc>>

\* log_weights_given_latent, x and z already packed in tuples
log_weights_given_latent(x, z, dlogp, normalize) ==
    LET logw == TensorSub(TensorAdd(PriorEnergy(z), dlogp), TargetEnergy(x))
    IN  IF normalize
        THEN [i \in 1..Len(logw) |-> [logw |-> logw[i], minus_logsumexp_of |-> logw]]
        ELSE logw

\* torch.cat of a list of tensors along the batch axis
RECURSIVE TorchCat(_)
TorchCat(ts) == IF ts = <<>> THEN <<>> ELSE Head(ts) \o TorchCat(Tail(ts))

\* the batches the loop of log_weights_from_samples draws: one per
\* iteration of range(num_samples // batch_size)
NumBatches(num_samples, batch_size) == num_samples \div batch_size

\* log_weights_from_samples, given the batches zs the prior drew (each a
\* 1-tuple holding a tensor of batch_size latents: the flow's result is
\* unpacked as x_batch, dlogp_batch, so the prior has one event)
log_weights_from_samples(zs, normalize) ==
    IF zs = <<>>
    THEN \* z[0] of an empty list
         [raised |-> "IndexError"]
    ELSE LET f == [b \in 1..Len(zs) |-> FlowForward(zs[b])]
             z_cat == [el \in 1..Len(zs[1]) |->
                          TorchCat([b \in 1..Len(zs) |-> zs[b][el]])]
             x == TorchCat([b \in 1..Len(zs) |-> f[b].x[1]])
             dlogp == TorchCat([b \in 1..Len(zs) |-> f[b].dlogp])
         IN  [raised |-> "none",
              value |-> log_weights_given_latent(<<x>>, z_cat, dlogp, normalize)]

LogWeightsFromSamplesCalls ==
    UNION {[op : {"log_weights_from_samples"}, num_samples : {ns}, batch_size : {bs},
            zs : [1..NumBatches(ns, bs) -> Draws(1, bs)], normalize : BOOLEAN]
           : <<ns, bs>> \in (1..MaxSamples) \X (1..MaxSamples)}

LogWeightsFromSamples ==
    /\ call.op = "log_weights_from_samples"
    /\ ret = Pending
    /\ ret' = log_weights_from_samples(call.zs, call.normalize)
    /\ UNCHANGED <<call, sobol, prod, affine, mc>>

\* a call of the generator has been made, with any arguments
InitBG ==
    /\ call \in SampleCalls \cup KldivCalls \cup LogWeightsFromSamplesCalls
    /\ ret = Pending
    /\ sobol = NoObject
    /\ prod = NoObject
    /\ affine = NoObject
    /\ mc = NoObject

NextBG == Sample \/ Kldiv \/ LogWeightsFromSamples

SpecBG == InitBG /\ [][NextBG]_vars

(***************************************************************************)
(* C1: for every combination of the five flags and every number of prior   *)
(* events, sample returns exactly the requested outputs in the order       *)
(* x(s), z(s), dlogp, energy, log_weight, weight, without raising, and the *)
(* value is bare exactly when one output was requested.                    *)
(***************************************************************************)
Repeat(name, k) == [j \in 1..k |-> name]

RequestedOutputs(c) ==
    Repeat("x", Len(c.z))
    \o (IF c.with_latent THEN Repeat("z", Len(c.z)) ELSE <<>>)
    \o (IF c.with_dlogp THEN <<"dlogp">> ELSE <<>>)
    \o (IF c.with_energy THEN <<"energy">> ELSE <<>>)
    \o (IF c.with_log_weights THEN <<"log_weight">> ELSE <<>>)
    \o (IF c.with_weights THEN <<"weight">> ELSE <<>>)

C1_SampleReturnsRequestedOutputs ==
    (call.op = "sample" /\ ret # Pending) =>
        /\ ret.raised = "none"
        /\ [j \in 1..Len(ret.value) |-> ret.value[j].name] = RequestedOutputs(call)
        /\ ret.bare = (Len(RequestedOutputs(call)) = 1)

(***************************************************************************)
(* C2: with return_energies, kldiv returns the pair (regularizer(E) -      *)
(* dlogp, E) where E is the raw target energy of the pushed-forward        *)
(* samples, the same with and without a regularizer.                       *)
(***************************************************************************)
C2_KldivReturnsRawEnergy ==
    (call.op = "kldiv" /\ call.return_energies /\ ret # Pending) =>
        LET f == FlowForward(call.z)
            E == TargetEnergy(f.x)
        IN  /\ ret.raised = "none"
            /\ ret.value[1] = TensorSub(ApplyRegularizer(call.energy_regularizer_fn, E),
                                        f.dlogp)
            /\ ret.value[2] = E

(***************************************************************************)
(* C5: log_weights_from_samples returns exactly num_samples log-weights    *)
(* for every num_samples >= 1 and batch_size >= 1, and does not fail.      *)
(***************************************************************************)
C5_ReturnsNumSamplesLogWeights ==
    (call.op = "log_weights_from_samples" /\ ret # Pending) =>
        /\ ret.raised = "none"
        /\ Len(ret.value) = call.num_samples

(***************************************************************************)
(* Recomputing the weights of a sample (bg.py).  sample is called with the *)
(* energy and log-weight outputs requested; the caller then hands the      *)
(* returned x back to log_weights, to log_weights_given_latent (with the   *)
(* latents and the dlogp of the same draw) or to energy.  The follow-up    *)
(* call records the sample call it follows and what that call returned.    *)
(***************************************************************************)
TensorNeg(a) == [i \in 1..Len(a) |-> -a[i]]

\* flow(*x, inverse=True, context=context) -> (*z, neg_dlogp): the inverse of
\* FlowForward, each event shifted back by one and the forward dlogp negated
FlowInverse(x) ==
    [z |-> [k \in 1..Len(x) |-> [i \in 1..BatchOf(x) |-> x[k][i] - 1]],
     dlogp |-> [i \in 1..BatchOf(x) |-> -(x[1][i])]]

\* unormalized_nll(prior, flow, *x)
unormalized_nll(x) ==
    LET g == FlowInverse(x)
    IN  TensorSub(PriorEnergy(g.z), g.dlogp)

\* BoltzmannGenerator.energy(*x)
BoltzmannGeneratorEnergy(x) == unormalized_nll(x)

\* log_weights with the inverse dlogp handed on without the sign flip
log_weights_unnegated(x, normalize) ==
    LET g == FlowInverse(x)
    IN  log_weights_given_latent(x, g.z, g.dlogp, normalize)

\* log_weights / BoltzmannGenerator.log_weights
log_weights_of_x(x, normalize) ==
    LET g == FlowInverse(x)
    IN  log_weights_given_latent(x, g.z, TensorNeg(g.dlogp), normalize)

\* the values of the outputs of one kind in what sample returned
OutputsNamed(value, name) ==
    LET sel == SelectSeq(value, LAMBDA o : o.name = name)
    IN  [j \in 1..Len(sel) |-> sel[j].val]

\* sample has returned and no follow-up call has been made
SampleReturned ==
    /\ call.op = "sample"
    /\ ret # Pending
    /\ ret.raised = "none"

LogWeights ==
    /\ SampleReturned
    /\ \E normalize \in BOOLEAN :
          LET x == OutputsNamed(ret.value, "x")
          IN  /\ call' = [op |-> "log_weights", x |-> x, normalize |-> normalize,
                          sample |-> call, sampled |-> ret.value]
              /\ ret' = [raised |-> "none", value |-> log_weights_of_x(x, normalize)]
    /\ UNCHANGED <<sobol, prod, affine, mc>>

LogWeightsGivenLatent ==
    /\ SampleReturned
    /\ \E normalize \in BOOLEAN :
          LET x == OutputsNamed(ret.value, "x")
              z == call.z
              dlogp == FlowForward(call.z).dlogp
          IN  /\ call' = [op |-> "log_weights_given_latent", x |-> x, z |-> z,
                          dlogp |-> dlogp, normalize |-> normalize,
                          sample |-> call, sampled |-> ret.value]
              /\ ret' = [raised |-> "none",
                         value |-> log_weights_given_latent(x, z, dlogp, normalize)]
    /\ UNCHANGED <<sobol, prod, affine, mc>>

Energy ==
    /\ SampleReturned
    /\ LET x == OutputsNamed(ret.value, "x")
       IN  /\ call' = [op |-> "energy", x |-> x, sample |-> call, sampled |-> ret.value]
           /\ ret' = [raised |-> "none", value |-> BoltzmannGeneratorEnergy(x)]
    /\ UNCHANGED <<sobol, prod, affine, mc>>

\* sample is called with the energy and the log-weight outputs requested
InitWeights ==
    /\ call \in {c \in SampleCalls : c.with_energy /\ c.with_log_weights}
    /\ ret = Pending
    /\ sobol = NoObject
    /\ prod = NoObject
    /\ affine = NoObject
    /\ mc = NoObject

NextWeights == Sample \/ LogWeights \/ LogWeightsGivenLatent \/ Energy

SpecWeights == InitWeights /\ [][NextWeights]_vars

(***************************************************************************)
(* C11: for the bijective flow, the log_weight output of sample, the       *)
(* unnormalized log_weights of the returned x and the unnormalized         *)
(* log_weights_given_latent of the returned x with the latents and dlogp   *)
(* of the draw all equal prior.energy(z) + dlogp - target.energy(x) for    *)
(* every sample, and energy of the returned x equals the energy output of  *)
(* sample.                                                                 *)
(***************************************************************************)
\* prior.energy(z) + dlogp - target.energy(x) for the draw z of a sample call
WeightsOfDraw(z) ==
    LET f == FlowForward(z)
    IN  [i \in 1..BatchOf(z) |->
            PriorEnergy(z)[i] + f.dlogp[i] - TargetEnergy(f.x)[i]]

C11_LogWeightsAgree ==
    /\ SampleReturned =>
          OutputsNamed(ret.value, "log_weight") = <<WeightsOfDraw(call.z)>>
    /\ (call.op \in {"log_weights", "log_weights_given_latent"} /\ ~call.normalize) =>
          /\ ret.raised = "none"
          /\ ret.value = WeightsOfDraw(call.sample.z)
          /\ <<ret.value>> = OutputsNamed(call.sampled, "log_weight")
    /\ call.op = "energy" =>
          /\ ret.raised = "none"
          /\ <<ret.value>> = OutputsNamed(call.sampled, "energy")

\* log_weights has recomputed the weights of a draw of two events and two
\* samples whose weights differ
C11_TwoEventsRecomputed ==
    /\ call.op = "log_weights"
    /\ ~call.normalize
    /\ Len(call.x) = 2
    /\ Len(ret.value) = 2
    /\ ret.value[1] # ret.value[2]
    /\ <<ret.value>> = OutputsNamed(call.sampled, "log_weight")

(***************************************************************************)
(* Tensors: a shape and the entries, indexed by tuples within the shape.   *)
(***************************************************************************)
Abs(a) == IF a < 0 THEN -a ELSE a

MaxOf(S) == CHOOSE m \in S : \A e \in S : e <= m

Indices(shape) ==
    IF shape = <<>> THEN {<<>>}
    ELSE {i \in [1..Len(shape) -> 1..MaxOf({shape[j] : j \in 1..Len(shape)})] :
              \A j \in 1..Len(shape) : i[j] <= shape[j]}

\* a Python / torch axis number as a position 1..rank; 0 when out of range
Axis(dim, rank) ==
    IF dim >= 0 /\ dim < rank THEN dim + 1
    ELSE IF dim < 0 /\ dim >= -rank THEN dim + rank + 1
    ELSE 0

\* the sum of the first p elements
Offset(lengths, p) == SumSeq(SubSeq(lengths, 1, p))

\* torch.cat(tensors, dim): the tensors agree on every axis but dim
TorchCatDim(ts, dim) ==
    LET r == Len(ts[1].shape)
        a == Axis(dim, r)
        lens == [p \in 1..Len(ts) |-> IF a = 0 THEN 0 ELSE ts[p].shape[a]]
        shape == [ts[1].shape EXCEPT ![a] = SumSeq(lens)]
        piece(i) == CHOOSE p \in 1..Len(ts) :
                        Offset(lens, p - 1) < i[a] /\ i[a] <= Offset(lens, p)
    IN  IF a = 0 THEN [raised |-> "IndexError"]
        ELSE IF \E p \in 1..Len(ts) :
                    \/ Len(ts[p].shape) # r
                    \/ \E j \in 1..r : j # a /\ ts[p].shape[j] # ts[1].shape[j]
        THEN [raised |-> "RuntimeError"]
        ELSE [raised |-> "none",
              value |-> [shape |-> shape,
                         data |-> [i \in Indices(shape) |->
                                      ts[piece(i)].data[[i EXCEPT ![a] =
                                          i[a] - Offset(lens, piece(i) - 1)]]]]]

\* Tensor.split(lengths, dim): the lengths add up to the size of the axis
TorchSplit(t, lengths, dim) ==
    LET a == Axis(dim, Len(t.shape))
    IN  IF a = 0 THEN [raised |-> "IndexError"]
        ELSE IF SumSeq(lengths) # t.shape[a] THEN [raised |-> "RuntimeError"]
        ELSE [raised |-> "none",
              value |-> [p \in 1..Len(lengths) |->
                  LET shape == [t.shape EXCEPT ![a] = lengths[p]]
                  IN  [shape |-> shape,
                       data |-> [i \in Indices(shape) |->
                                    t.data[[i EXCEPT ![a] = i[a] + Offset(lengths, p - 1)]]]]]]

(***************************************************************************)
(* ProductEnergy, ProductSampler, ProductDistribution (product.py).  A     *)
(* component is a single-event distribution, given by its event shape.     *)
(***************************************************************************)
Shapes == UNION {[1..r -> 1..MaxDim] : r \in 1..MaxRank}

\* cat_dim: None, or an axis number
CatDims == {[is_none |-> TRUE, dim |-> 0]}
           \cup {[is_none |-> FALSE, dim |-> d] : d \in (-(MaxRank + 1))..MaxRank}

\* the same, comparing the shapes on every axis, the concatenation axis too
shapes_equal(shape1, shape2, cat_dim) ==
    \A j \in 1..Len(shape1) : shape1[j] = shape2[j]

\* _shapes_consistent: diff.sum() == diff[cat_dim]
shapes_consistent(shape1, shape2, cat_dim) ==
    LET diff == [j \in 1..Len(shape1) |-> Abs(shape1[j] - shape2[j])]
    IN  SumSeq(diff) = diff[Axis(cat_dim, Len(shape1))]

\* _stacked_event_shapes
stacked_event_shapes(event_shapes, cat_dim) ==
    IF cat_dim.is_none
    THEN [raised |-> "none", event_shapes |-> event_shapes, lengths |-> <<>>]
    ELSE IF \E k \in 1..Len(event_shapes) : Axis(cat_dim.dim, Len(event_shapes[k])) = 0
    THEN \* lengths = [e[cat_dim] for e in event_shapes]
         [raised |-> "IndexError"]
    ELSE LET lengths == [k \in 1..Len(event_shapes) |->
                            event_shapes[k][Axis(cat_dim.dim, Len(event_shapes[k]))]]
             shape == event_shapes[1]
         IN  IF \E k \in 1..Len(event_shapes) :
                    \/ Len(event_shapes[k]) # Len(shape)
                    \/ ~shapes_consistent(event_shapes[k], shape, cat_dim.dim)
             THEN [raised |-> "AssertionError"]
             ELSE [raised |-> "none",
                   event_shapes |-> <<[shape EXCEPT ![Axis(cat_dim.dim, Len(shape))] =
                                          SumSeq(lengths)]>>,
                   lengths |-> lengths]

\* ProductDistribution.__init__ (ProductEnergy.__init__ and
\* ProductSampler.__init__ within it)
ProductDistributionInit(components, cat_dim) ==
    LET st == stacked_event_shapes(components, cat_dim)
    IN  IF st.raised # "none"
        THEN [raised |-> st.raised, object |-> NoObject]
        ELSE [raised |-> "none",
              object |-> [kind |-> "ProductDistribution", components |-> components,
                          cat_dim |-> cat_dim, lengths |-> st.lengths,
                          event_shapes |-> st.event_shapes]]

ProductInitCalls ==
    [op : {"init"}, components : SeqsUpTo(Shapes, MaxK), cat_dim : CatDims]

ProductInit ==
    /\ call.op = "init"
    /\ ret = Pending
    /\ LET o == ProductDistributionInit(call.components, call.cat_dim)
       IN  /\ ret' = [raised |-> o.raised]
           /\ prod' = o.object
    /\ UNCHANGED <<call, sobol, affine, mc>>

InitProduct ==
    /\ call \in ProductInitCalls
    /\ ret = Pending
    /\ sobol = NoObject
    /\ prod = NoObject
    /\ affine = NoObject
    /\ mc = NoObject

RECURSIVE SumOver(_, _)
SumOver(S, t) ==
    IF S = {} THEN 0
    ELSE LET i == CHOOSE j \in S : TRUE IN t[i] + SumOver(S \ {i}, t)

\* component k's _sample(n_samples): a tensor of shape (n_samples, *event_shape),
\* one of NumSeeds patterns of entries
ComponentSample(k, event_shape, n, seed) ==
    LET shape == <<n>> \o event_shape
    IN  [shape |-> shape,
         data |-> [i \in Indices(shape) |->
                      seed + k + SumSeq([j \in 1..Len(shape) |-> j * i[j]])]]

\* per sample, the sum of the entries of the event
EventSums(x) ==
    [b \in 1..x.shape[1] |->
        SumOver({i \in Indices(x.shape) : i[1] = b}, x.data)]

\* component k's energy(x): x must carry the component's event shape
ComponentEnergy(k, event_shape, x) ==
    IF Tail(x.shape) # event_shape THEN [raised |-> "AssertionError"]
    ELSE [raised |-> "none", value |-> [b \in 1..x.shape[1] |-> k * EventSums(x)[b]]]

\* component k's log_prob(x): the negative energy less a normalisation constant
ComponentLogProb(k, event_shape, x) ==
    IF Tail(x.shape) # event_shape THEN [raised |-> "AssertionError"]
    ELSE [raised |-> "none", value |-> [b \in 1..x.shape[1] |-> -(k * EventSums(x)[b]) - k]]

\* torch.sum(torch.stack(energies, dim=-1), dim=-1), and
\* torch.sum(torch.cat([lp.reshape(lp.shape[0], -1) ...], dim=-1), dim=-1):
\* the per-sample sum over the components, which must agree on the batch
SumOverComponents(rs) ==
    IF \E k \in 1..Len(rs) : rs[k].raised # "none"
    THEN [raised |-> rs[CHOOSE k \in 1..Len(rs) : rs[k].raised # "none"].raised]
    ELSE IF \E k \in 1..Len(rs) : Len(rs[k].value) # Len(rs[1].value)
    THEN [raised |-> "RuntimeError"]
    ELSE [raised |-> "none",
          value |-> [b \in 1..Len(rs[1].value) |->
                        SumSeq([k \in 1..Len(rs) |-> rs[k].value[b]])]]

\* the pieces handed to the components: xs itself, or the split of xs[0]
\* along dim=cat_dim by the stored lengths
ComponentInputs(p, xs) ==
    IF p.cat_dim.is_none
    THEN IF Len(xs) # Len(p.components) THEN [raised |-> "AssertionError"]
         ELSE [raised |-> "none", value |-> xs]
    ELSE IF Len(xs) # 1 THEN [raised |-> "AssertionError"]
         ELSE TorchSplit(xs[1], p.lengths, p.cat_dim.dim)

\* ProductEnergy._energy(*xs)
product_energy(p, xs) ==
    LET pieces == ComponentInputs(p, xs)
    IN  IF pieces.raised # "none" THEN [raised |-> pieces.raised]
        ELSE SumOverComponents([k \in 1..Len(p.components) |->
                 ComponentEnergy(k, p.components[k], pieces.value[k])])

\* ProductDistribution.log_prob(*xs); self._lengths is read through the
\* distribution's energy, which holds it
log_prob(p, xs) ==
    LET pieces == ComponentInputs(p, xs)
    IN  IF pieces.raised # "none" THEN [raised |-> pieces.raised]
        ELSE SumOverComponents([k \in 1..Len(p.components) |->
                 ComponentLogProb(k, p.components[k], pieces.value[k])])

\* ProductSampler._sample(n_samples), given the components' samples
product_sample(p, parts) ==
    IF p.cat_dim.is_none THEN [raised |-> "none", value |-> parts]
    ELSE LET c == TorchCatDim(parts, p.cat_dim.dim)
         IN  IF c.raised # "none" THEN [raised |-> c.raised]
             ELSE [raised |-> "none", value |-> <<c.value>>]

ProductSample ==
    /\ call.op = "init"
    /\ prod.kind = "ProductDistribution"
    /\ \E n \in 1..MaxBatch, seed \in Seeds :
        LET parts == [k \in 1..Len(prod.components) |->
                         ComponentSample(k, prod.components[k], n, seed)]
        IN  /\ call' = [op |-> "sample", n_samples |-> n, parts |-> parts]
            /\ ret' = product_sample(prod, parts)
    /\ UNCHANGED <<sobol, prod, affine, mc>>

\* the energy of what the sampler returned
ProductEnergyCall ==
    /\ call.op = "sample"
    /\ ret.raised = "none"
    /\ call' = [op |-> "energy", xs |-> ret.value, parts |-> call.parts]
    /\ ret' = product_energy(prod, ret.value)
    /\ UNCHANGED <<sobol, prod, affine, mc>>

\* the log-probability of what the sampler returned
ProductLogProb ==
    /\ call.op = "sample"
    /\ ret.raised = "none"
    /\ call' = [op |-> "log_prob", xs |-> ret.value, parts |-> call.parts]
    /\ ret' = log_prob(prod, ret.value)
    /\ UNCHANGED <<sobol, prod, affine, mc>>

NextProduct == ProductInit \/ ProductSample \/ ProductEnergyCall \/ ProductLogProb

SpecProduct == InitProduct /\ [][NextProduct]_vars

\* construction alone
NextProductInit == ProductInit

SpecProductInit == InitProduct /\ [][NextProductInit]_vars

(***************************************************************************)
(* C6: ProductEnergy is additive in both input modes: the energy of what   *)
(* ProductSampler returns (K tensors, or their concatenation along         *)
(* cat_dim, negative or not) is the sum of the components' energies of     *)
(* their own samples.                                                      *)
(***************************************************************************)
ComponentEnergies ==
    [k \in 1..Len(prod.components) |->
        ComponentEnergy(k, prod.components[k], call.parts[k])]

C6_ProductEnergyAdditive ==
    call.op = "energy" =>
        /\ ret.raised = "none"
        /\ ret.value = SumOverComponents(ComponentEnergies).value

\* what does hold: additivity when cat_dim is None or negative
C6_AdditiveForNoneOrNegativeCatDim ==
    (call.op = "energy" /\ (prod.cat_dim.is_none \/ prod.cat_dim.dim < 0)) =>
        /\ ret.raised = "none"
        /\ ret.value = SumOverComponents(ComponentEnergies).value

(***************************************************************************)
(* C8: ProductDistribution.log_prob returns, per sample, the sum of the    *)
(* components' own log_prob, with cat_dim None and with cat_dim set, and   *)
(* does not fail for inputs of the declared shapes.                        *)
(***************************************************************************)
ComponentLogProbs ==
    [k \in 1..Len(prod.components) |->
        ComponentLogProb(k, prod.components[k], call.parts[k])]

C8_LogProbIsSumOfComponents ==
    call.op = "log_prob" =>
        /\ ret.raised = "none"
        /\ ret.value = SumOverComponents(ComponentLogProbs).value

\* what does hold: the same when cat_dim is None or negative
C8_LogProbForNoneOrNegativeCatDim ==
    (call.op = "log_prob" /\ (prod.cat_dim.is_none \/ prod.cat_dim.dim < 0)) =>
        /\ ret.raised = "none"
        /\ ret.value = SumOverComponents(ComponentLogProbs).value

(***************************************************************************)
(* C7 as stated: construction with a cat_dim fails if and only if some     *)
(* component event shape differs from the others in rank or on an axis     *)
(* other than the concatenation axis; on success the event shape is the    *)
(* common shape with the concatenation axis replaced by the sum of the     *)
(* components' lengths there, and the stored lengths are those lengths.    *)
(***************************************************************************)
\* some two components differ in rank, or on an axis that is not cat_dim
ShapesDiffer(components, dim) ==
    \E k, l \in 1..Len(components) :
        \/ Len(components[k]) # Len(components[l])
        \/ \E j \in 1..Len(components[k]) :
               /\ j # Axis(dim, Len(components[k]))
               /\ components[k][j] # components[l][j]

\* cat_dim is an axis of every component's event shape
IsAxisOfAll(components, dim) ==
    \A k \in 1..Len(components) : Axis(dim, Len(components[k])) # 0

ConstructedAsStacked ==
    LET cs == call.components
        a == Axis(call.cat_dim.dim, Len(cs[1]))
    IN  /\ prod.kind = "ProductDistribution"
        /\ prod.lengths = [k \in 1..Len(cs) |-> cs[k][a]]
        /\ prod.event_shapes =
               <<[j \in 1..Len(cs[1]) |->
                     IF j = a THEN SumSeq([k \in 1..Len(cs) |-> cs[k][a]])
                     ELSE cs[1][j]]>>

C7_FailsIffShapesDiffer ==
    (call.op = "init" /\ ret # Pending /\ ~call.cat_dim.is_none) =>
        /\ (ret.raised # "none") = ShapesDiffer(call.components, call.cat_dim.dim)
        /\ ret.raised = "none" => ConstructedAsStacked

(***************************************************************************)
(* C7 amended: construction with a cat_dim fails if and only if some       *)
(* component event shape differs from the others in rank or on an axis     *)
(* other than the concatenation axis, or cat_dim is not an axis of the     *)
(* components' event shapes; on success the event shape and the stored     *)
(* lengths are as stated.                                                  *)
(***************************************************************************)
C7_FailsIffShapesDifferOrNoSuchAxis ==
    (call.op = "init" /\ ret # Pending /\ ~call.cat_dim.is_none) =>
        /\ (ret.raised # "none") =
               (\/ ShapesDiffer(call.components, call.cat_dim.dim)
                \/ ~IsAxisOfAll(call.components, call.cat_dim.dim))
        /\ ret.raised = "none" => ConstructedAsStacked
        /\ ret.raised # "none" => prod = NoObject

\* two components of rank two with different lengths on the concatenation
\* axis, stacked along it
C7_StackedUnequalLengths ==
    /\ call.op = "init"
    /\ ret = NoRet
    /\ ~call.cat_dim.is_none
    /\ Len(call.components) = 2
    /\ Len(call.components[1]) = 2
    /\ prod.kind = "ProductDistribution"
    /\ prod.lengths[1] # prod.lengths[2]
    /\ prod.event_shapes[1] # call.components[1]

(***************************************************************************)
(* effective_sample_size, sampling_efficiency (bg.py).  A log-weight is    *)
(* -inf or a natural number l standing for l * ln 2, so that its weight    *)
(* exp(l * ln 2) = 2^l is an integer and the arithmetic is exact; a        *)
(* positive real is a fraction [num, den].                                 *)
(***************************************************************************)
NegInf == [finite |-> FALSE, v |-> 0]
Finite(l) == [finite |-> TRUE, v |-> l]

LogWeightValues == {NegInf} \cup {Finite(l) : l \in 0..MaxLogW}

\* batches of log-weights, one at least finite (a batch with no weight at
\* all has no effective sample size)
LogWeightBatches ==
    {lw \in SeqsUpTo(LogWeightValues, MaxWeights) : \E i \in 1..Len(lw) : lw[i].finite}

\* c * log_weights and log_weights + c, elementwise; -inf stays -inf
ScaleLog(c, lw) ==
    [i \in 1..Len(lw) |-> IF lw[i].finite THEN Finite(c * lw[i].v) ELSE NegInf]
ShiftLog(lw, c) ==
    [i \in 1..Len(lw) |-> IF lw[i].finite THEN Finite(lw[i].v + c) ELSE NegInf]

\* exp(torch.logsumexp(log_weights, dim=0)): the sum of the weights
ExpLogSumExp(lw) ==
    SumSeq([i \in 1..Len(lw) |-> IF lw[i].finite THEN 2^(lw[i].v) ELSE 0])

\* the same with the doubling of the log-weights left out of the second term
effective_sample_size_undoubled(log_weights) ==
    [num |-> ExpLogSumExp(log_weights) * ExpLogSumExp(log_weights),
     den |-> ExpLogSumExp(log_weights)]

\* effective_sample_size: exp(2 * logsumexp(lw) - logsumexp(2 * lw))
effective_sample_size(log_weights) ==
    [num |-> ExpLogSumExp(log_weights) * ExpLogSumExp(log_weights),
     den |-> ExpLogSumExp(ScaleLog(2, log_weights))]

\* sampling_efficiency: effective_sample_size(lw) / len(lw)
sampling_efficiency(log_weights) ==
    LET ess == effective_sample_size(log_weights)
    IN  [num |-> ess.num, den |-> ess.den * Len(log_weights)]

EssCalls ==
    [op : {"effective_sample_size", "sampling_efficiency"},
     log_weights : LogWeightBatches, added : {0}, before : {[num |-> 0, den |-> 1]}]

EffectiveSampleSize ==
    /\ call.op = "effective_sample_size"
    /\ ret = Pending
    /\ ret' = [raised |-> "none", value |-> effective_sample_size(call.log_weights)]
    /\ UNCHANGED <<call, sobol, prod, affine, mc>>

SamplingEfficiency ==
    /\ call.op = "sampling_efficiency"
    /\ ret = Pending
    /\ ret' = [raised |-> "none", value |-> sampling_efficiency(call.log_weights)]
    /\ UNCHANGED <<call, sobol, prod, affine, mc>>

\* the caller adds a constant to every log-weight and asks again
AddConstant ==
    /\ call.op = "effective_sample_size"
    /\ ret # Pending
    /\ call.added = 0
    /\ \E c \in 1..MaxShift :
           call' = [call EXCEPT !.log_weights = ShiftLog(call.log_weights, c),
                                !.added = c, !.before = ret.value]
    /\ ret' = Pending
    /\ UNCHANGED <<sobol, prod, affine, mc>>

InitEss ==
    /\ call \in EssCalls
    /\ ret = Pending
    /\ sobol = NoObject
    /\ prod = NoObject
    /\ affine = NoObject
    /\ mc = NoObject

NextEss == EffectiveSampleSize \/ SamplingEfficiency \/ AddConstant

SpecEss == InitEss /\ [][NextEss]_vars

(***************************************************************************)
(* C9: the effective sample size (sum w)^2 / sum(w^2) lies between 1 and   *)
(* the batch size N; it equals N when all log-weights are equal, 1 when    *)
(* all mass is on one sample, and does not change when a constant is       *)
(* added to every log-weight; sampling_efficiency is this value over N.    *)
(***************************************************************************)
SumOfWeights(lw) == SumSeq([i \in 1..Len(lw) |-> IF lw[i].finite THEN 2^(lw[i].v) ELSE 0])
SumOfSquares(lw) ==
    SumSeq([i \in 1..Len(lw) |-> IF lw[i].finite THEN 2^(lw[i].v) * 2^(lw[i].v) ELSE 0])

RECURSIVE Gcd(_, _)
Gcd(a, b) == IF b = 0 THEN a ELSE Gcd(b, a % b)

\* the fraction n/d (d > 0) in lowest terms
Frac(n, d) == LET g == Gcd(Abs(n), d) IN [n |-> n \div g, d |-> d \div g]

FracAdd(a, b) == Frac(a.n * b.d + b.n * a.d, a.d * b.d)
FracSub(a, b) == Frac(a.n * b.d - b.n * a.d, a.d * b.d)
FracMul(a, b) == Frac(a.n * b.n, a.d * b.d)
\* a % 1.0: the fractional part, in [0, 1)
FracMod1(a) == Frac(a.n % a.d, a.d)
\* torch.exp of l * ln 2
Exp2(l) == IF l >= 0 THEN Frac(2^l, 1) ELSE Frac(1, 2^(-l))

\* is_circular as given: a bool, or one bool per dimension
CircularSettings(D) ==
    {[per_dim |-> FALSE, mask |-> <<b>>] : b \in BOOLEAN}
    \cup {[per_dim |-> TRUE, mask |-> m] : m \in [1..D -> BOOLEAN]}

\* AffineTransformer.__init__: torch.as_tensor(is_circular), replaced by the
\* Python bool False when a scale transformation is given
AffineTransformerInit(shift, scale, preserve_volume, is_circular, D) ==
    [kind |-> "AffineTransformer", dim |-> D,
     shift_transformation |-> shift, scale_transformation |-> scale,
     preserve_volume |-> preserve_volume,
     is_circular |-> IF scale
                     THEN [is_tensor |-> FALSE, per_dim |-> FALSE, mask |-> <<FALSE>>]
                     ELSE [is_tensor |-> TRUE, per_dim |-> is_circular.per_dim,
                           mask |-> is_circular.mask]]

\* the shift network: a quarter-valued function of the carrier and the dimension
ShiftNet(x, j) == Frac(((2 * x + j) % 4) - 1, 4)

\* torch.tanh(scale(x)) * alpha: -D, 0 or D, so that the mean over the D
\* dimensions is an integer
ScaleNet(x, j, D) == D * (((x + j) % 3) - 1)

\* _get_mu_and_log_sigma
get_mu_and_log_sigma(t, x) ==
    LET D == t.dim
        raw == [j \in 1..D |-> ScaleNet(x, j, D)]
        mean == SumSeq(raw) \div D
    IN  [mu |-> [j \in 1..D |-> IF t.shift_transformation THEN ShiftNet(x, j)
                                ELSE Frac(0, 1)],
         log_sigma |-> [j \in 1..D |->
                           IF t.scale_transformation
                           THEN IF t.preserve_volume THEN raw[j] - mean ELSE raw[j]
                           ELSE 0]]

\* the dimensions wrapped to [0, 1): all when _is_circular is the bool True
\* or a 0-dim True tensor, the masked ones when it is a 1-dim tensor
Wrapped(t, j) ==
    IF t.is_circular.is_tensor
    THEN IF t.is_circular.per_dim THEN t.is_circular.mask[j] ELSE t.is_circular.mask[1]
    ELSE t.is_circular.mask[1]

Wrap(t, y) == [j \in 1..Len(y) |-> IF Wrapped(t, j) THEN FracMod1(y[j]) ELSE y[j]]

\* AffineTransformer._forward
affine_forward(t, x, y) ==
    LET m == get_mu_and_log_sigma(t, x)
    IN  [raised |-> "none",
         y |-> Wrap(t, [j \in 1..Len(y) |->
                           FracAdd(FracMul(Exp2(m.log_sigma[j]), y[j]), m.mu[j])]),
         dlogp |-> SumSeq(m.log_sigma)]

\* the same with the shift added instead of subtracted
affine_inverse_adds_shift(t, x, y) ==
    LET m == get_mu_and_log_sigma(t, x)
    IN  [raised |-> "none",
         y |-> Wrap(t, [j \in 1..Len(y) |->
                           FracMul(Exp2(-m.log_sigma[j]), FracAdd(y[j], m.mu[j]))]),
         dlogp |-> SumSeq([j \in 1..Len(y) |-> -m.log_sigma[j]])]

\* AffineTransformer._inverse
affine_inverse(t, x, y) ==
    LET m == get_mu_and_log_sigma(t, x)
    IN  [raised |-> "none",
         y |-> Wrap(t, [j \in 1..Len(y) |->
                           FracMul(Exp2(-m.log_sigma[j]), FracSub(y[j], m.mu[j]))]),
         dlogp |-> SumSeq([j \in 1..Len(y) |-> -m.log_sigma[j]])]

AffineInitCalls ==
    UNION {[op : {"init"}, shift_transformation : BOOLEAN, scale_transformation : BOOLEAN,
            preserve_volume : BOOLEAN, is_circular : CircularSettings(D), dim : {D}]
           : D \in 1..MaxDim}

AffineInit ==
    /\ call.op = "init"
    /\ ret = Pending
    /\ affine' = AffineTransformerInit(call.shift_transformation, call.scale_transformation,
                                       call.preserve_volume, call.is_circular, call.dim)
    /\ ret' = NoRet
    /\ UNCHANGED <<call, sobol, prod, mc>>

YValues == {Frac(n, 2) : n \in (-1)..MaxY}
Carriers == 0..MaxCarrier

AffineForward ==
    /\ call.op = "init"
    /\ affine.kind = "AffineTransformer"
    /\ \E x \in Carriers, y \in [1..affine.dim -> YValues] :
        /\ call' = [op |-> "forward", x |-> x, y |-> y]
        /\ ret' = affine_forward(affine, x, y)
    /\ UNCHANGED <<sobol, prod, affine, mc>>

\* the inverse of what the forward pass returned, with the same carrier
AffineInverse ==
    /\ call.op = "forward"
    /\ call' = [op |-> "inverse", x |-> call.x, y |-> ret.y,
                original |-> call.y, forward_dlogp |-> ret.dlogp]
    /\ ret' = affine_inverse(affine, call.x, ret.y)
    /\ UNCHANGED <<sobol, prod, affine, mc>>

InitAffine ==
    /\ call \in AffineInitCalls
    /\ ret = Pending
    /\ sobol = NoObject
    /\ prod = NoObject
    /\ affine = NoObject
    /\ mc = NoObject

NextAffine == AffineInit \/ AffineForward \/ AffineInverse

SpecAffine == InitAffine /\ [][NextAffine]_vars

(***************************************************************************)
(* C10 as stated: for any shift / scale configuration and any is_circular  *)
(* setting, _inverse of the output of _forward with the same carrier       *)
(* returns the original y, for every y, and the two dlogp sum to zero.     *)
(***************************************************************************)
C10_InverseOfForwardIsIdentity ==
    call.op = "inverse" =>
        /\ ret.raised = "none"
        /\ ret.y = call.original
        /\ ret.dlogp + call.forward_dlogp = 0

(***************************************************************************)
(* C10 amended: the two dlogp sum to zero, and _inverse of the output of   *)
(* _forward returns the original y on every dimension that is not wrapped  *)
(* and y mod 1 on every wrapped one (the circular dimensions, when no      *)
(* scale transformation is given): the original y exactly when its wrapped *)
(* dimensions lie in [0, 1).                                               *)
(***************************************************************************)
C10_InverseOfForwardUpToWrap ==
    call.op = "inverse" =>
        /\ ret.raised = "none"
        /\ ret.dlogp + call.forward_dlogp = 0
        /\ \A j \in 1..Len(ret.y) :
               ret.y[j] = IF Wrapped(affine, j) THEN FracMod1(call.original[j])
                          ELSE call.original[j]
        /\ (ret.y = call.original) =
               (\A j \in 1..Len(ret.y) :
                    Wrapped(affine, j) =>
                        (call.original[j].n >= 0 /\ call.original[j].n < call.original[j].d))
        /\ \A j \in 1..Len(ret.y) :
               Wrapped(affine, j) <=>
                   /\ ~affine.scale_transformation
                   /\ IF affine.is_circular.per_dim THEN affine.is_circular.mask[j]
                      ELSE affine.is_circular.mask[1]

\* a round trip through a shifting transformer with a wrapped dimension: the
\* forward pass wrapped the shifted value around, the inverse recovered y
C10_WrappedRoundTrip ==
    /\ call.op = "inverse"
    /\ affine.shift_transformation
    /\ \E j \in 1..Len(ret.y) :
           /\ Wrapped(affine, j)
           /\ call.y[j] # call.original[j]
           /\ FracAdd(call.original[j], ShiftNet(call.x, j)).n
                  >= FracAdd(call.original[j], ShiftNet(call.x, j)).d
    /\ \E j \in 1..Len(ret.y) : ~Wrapped(affine, j)
    /\ ret.y = call.original

(***************************************************************************)
(* Metropolis Monte Carlo flow (mcmc.py).  A batch is a sequence of        *)
(* configurations, one grid point per sample.  Energies are floating-point *)
(* values: a finite number, plus or minus infinity, or NaN, with the IEEE  *)
(* rules for the products and sums the code forms.  The energy model is    *)
(* the injected collaborator: quadratic, or quadratic inside a hard wall   *)
(* and +inf beyond it.                                                     *)
(***************************************************************************)
Fin(v) == [kind |-> "fin", v |-> v]
\* +inf (sign 1) and -inf (sign -1)
Inf(sign) == [kind |-> "inf", v |-> sign]
NaN == [kind |-> "nan", v |-> 0]

FloatNeg(a) == IF a.kind = "nan" THEN NaN ELSE [kind |-> a.kind, v |-> -a.v]

FloatAdd(a, b) ==
    IF a.kind = "nan" \/ b.kind = "nan" THEN NaN
    ELSE IF a.kind = "inf" /\ b.kind = "inf" THEN (IF a.v = b.v THEN a ELSE NaN)
    ELSE IF a.kind = "inf" THEN a
    ELSE IF b.kind = "inf" THEN b
    ELSE Fin(a.v + b.v)

FloatSub(a, b) == FloatAdd(a, FloatNeg(b))

\* m * a for a selection variable m of 0. or 1.: 0 * inf and 0 * nan are nan
FloatMask(m, a) ==
    IF m = 1 THEN a
    ELSE IF a.kind = "fin" THEN Fin(0)
    ELSE NaN

Positions == 0..MaxPos

\* the last grid point inside the hard wall
Wall == MaxPos - 1

EnergyModels == {"quadratic", "hard_wall"}

\* self.energy_model.energy(x), per sample
ModelEnergy(energy_model, x) ==
    [s \in 1..Len(x) |->
        IF energy_model = "hard_wall" /\ x[s] > Wall THEN Inf(1) ELSE Fin(x[s] * x[s])]

\* the values (torch.rand(...) < torch.exp(-(Eprop - E))).float() can take for
\* one sample: rand is in [0, 1), a comparison with nan is false
AcceptOutcomes(Eprop, E) ==
    LET d == FloatSub(Eprop, E)
    IN  IF d.kind = "nan" THEN {0}
        ELSE IF d.kind = "inf" THEN (IF d.v > 0 THEN {0} ELSE {1})
        ELSE IF d.v <= 0 THEN {1}
        ELSE {0, 1}

\* E = (1-acc) * E + acc * Eprop
BlendEnergy(acc, E, Eprop) ==
    [s \in 1..Len(E) |->
        FloatAdd(FloatMask(1 - acc[s], E[s]), FloatMask(acc[s], Eprop[s]))]

\* x = (1-acc) * x + acc * xprop, on finite configurations
BlendConfiguration(acc, x, xprop) ==
    [s \in 1..Len(x) |-> (1 - acc[s]) * x[s] + acc[s] * xprop[s]]

\* the calls of _forward and _inverse: the flow's energy model and nsteps,
\* and the batch x
MCCalls ==
    UNION {[op : {"_forward", "_inverse"}, energy_model : EnergyModels,
            nsteps : 0..MaxSteps, x : [1..n -> Positions]] : n \in 1..MaxWalkers}

\* lines 30-32: E0 = energy(x); E = E0
MCEnter ==
    /\ call.op \in {"_forward", "_inverse"}
    /\ ret = Pending
    /\ mc = NoObject
    /\ LET E0 == ModelEnergy(call.energy_model, call.x)
       IN  mc' = [kind |-> "trajectory", x |-> call.x, E0 |-> E0, E |-> E0, i |-> 0,
                  acc |-> <<>>]
    /\ UNCHANGED <<call, ret, sobol, prod, affine>>

\* one iteration of the loop: the proposal dx (a step on the grid for each
\* sample) and the acceptance acc
MCStep ==
    /\ mc # NoObject
    /\ ret = Pending
    /\ mc.i < call.nsteps
    /\ \E dx \in [1..Len(mc.x) -> {-1, 0, 1}] :
          LET xprop == [s \in 1..Len(mc.x) |-> mc.x[s] + dx[s]]
              Eprop == ModelEnergy(call.energy_model, xprop)
          IN  /\ \A s \in 1..Len(mc.x) : xprop[s] \in Positions
              /\ \E acc \in [1..Len(mc.x) -> {0, 1}] :
                    /\ \A s \in 1..Len(mc.x) : acc[s] \in AcceptOutcomes(Eprop[s], mc.E[s])
                    /\ mc' = [mc EXCEPT !.x = BlendConfiguration(acc, mc.x, xprop),
                                        !.E = BlendEnergy(acc, mc.E, Eprop),
                                        !.i = mc.i + 1,
                                        !.acc = acc]
    /\ UNCHANGED <<call, ret, sobol, prod, affine>>

\* lines 55-57: dW = E - E0; return x, dW
MCReturn ==
    /\ mc # NoObject
    /\ ret = Pending
    /\ mc.i = call.nsteps
    /\ ret' = [raised |-> "none", x |-> mc.x,
               dW |-> [s \in 1..Len(mc.x) |-> FloatSub(mc.E[s], mc.E0[s])]]
    /\ UNCHANGED <<call, sobol, prod, affine, mc>>

InitMC ==
    /\ call \in MCCalls
    /\ ret = Pending
    /\ sobol = NoObject
    /\ prod = NoObject
    /\ affine = NoObject
    /\ mc = NoObject

NextMC == MCEnter \/ MCStep \/ MCReturn

SpecMC == InitMC /\ [][NextMC]_vars

(***************************************************************************)
(* C12: in _forward and in _inverse alike, after each of the nsteps steps  *)
(* and for every sample, the tracked energy E is the energy of the tracked *)
(* configuration x, whatever was accepted and rejected, and the returned   *)
(* dW is energy(x_out) - energy(x_in).                                     *)
(***************************************************************************)
TrackedEnergyIsEnergyOfX ==
    /\ mc # NoObject => mc.E = ModelEnergy(call.energy_model, mc.x)
    /\ (mc # NoObject /\ ret # Pending) =>
          /\ ret.raised = "none"
          /\ ret.x = mc.x
          /\ \A s \in 1..Len(ret.x) :
                ret.dW[s] = FloatSub(ModelEnergy(call.energy_model, ret.x)[s],
                                     ModelEnergy(call.energy_model, call.x)[s])

C12_TrackedEnergyIsEnergyOfX ==
    call.op \in {"_forward", "_inverse"} => TrackedEnergyIsEnergyOfX

(***************************************************************************)
(* The same under an energy model whose energies are all finite.           *)
(***************************************************************************)
C12_TrackedEnergyUnderFiniteEnergies ==
    (call.op \in {"_forward", "_inverse"} /\ call.energy_model = "quadratic") =>
        TrackedEnergyIsEnergyOfX

\* a trajectory of two samples under the quadratic model has returned after
\* a step that accepted one proposal and rejected the other
C12_MixedAcceptance ==
    /\ call.op = "_inverse"
    /\ call.energy_model = "quadratic"
    /\ ret # Pending
    /\ mc.i = MaxSteps
    /\ mc.acc = <<1, 0>>
    /\ mc.x # call.x

====
